---- MODULE Spec2Model ----
(***************************************************************************)
(* The step-data converter of beacon-relay (convert_my_step_data.ts): one  *)
(* run of convertMyStepData, statement by statement, together with the     *)
(* codecs it calls.                                                        *)
(*                                                                         *)
(* Representation.  A JavaScript bigint is a little-endian sequence of     *)
(* bits without a most-significant zero (<<>> is 0, <<1,0,1>> is 5): the   *)
(* coordinates are 381-bit numbers and the limbs 55-bit numbers, both      *)
(* beyond TLC's 32-bit integers.  A string is the sequence of its          *)
(* characters.  An optional value is a sequence of length 0 or 1.  The     *)
(* output file holds the object handed to JSON.stringify; the decimal text *)
(* that lines 16-18 and 78 make of it is not modelled.                     *)
(*                                                                         *)
(* bls_utils.ts (bigint_to_array, hexToIntArray, sigHexAsSnarkInput) is    *)
(* imported by the converter but its text is not part of the sources; the  *)
(* three functions follow sections 4.1, 4.2 and 4.4 of the specification.  *)
(* PointG1.fromHex and the G2 decompression belong to @noble/bls12-381;    *)
(* they are the narrow capability decompress(hex) -> point or error, given *)
(* here by a table over synthetic keys.                                    *)
(***************************************************************************)
EXTENDS Integers, Sequences, FiniteSets, TLC

VARIABLES
  pc,          \* position of the run, or of a codec probe
  inputFile,   \* data/my_step_data.json as found on disk
  rawData,     \* line 37: the bytes read (optional)
  myStepData,  \* line 40: the parsed document (optional)
  pubkeys,     \* line 42: the array Array.map is building
  idx,         \* line 42: index of the next element the map visits
  pubkeysX,    \* line 51
  pubkeysY,    \* line 52
  i,           \* line 54: loop counter
  signature,   \* line 63: the evaluated property (optional)
  signingRoot, \* line 64: the evaluated property (optional)
  outputLocation, \* what data/my_step_input.json is before the run
  outputFile,  \* what the run has stored at data/my_step_input.json (optional)
  unhandledRejections, \* how the runtime treats a rejection nobody handles
  err,         \* the error the async function rejected with (optional)
  exitCode,    \* status of the process (optional)
  trace,       \* history: the steps of the run in the order they ran
  probe,       \* a codec probe: the call and its arguments
  res          \* a codec probe: what the call returned

vars == <<pc, inputFile, outputLocation, unhandledRejections, rawData, myStepData, pubkeys, idx, pubkeysX, pubkeysY,
          i, signature, signingRoot, outputFile, err, exitCode, trace, probe, res>>

(***************************************************************************)
(* Constants of the program and bounds of the model.                       *)
(***************************************************************************)
n == 55
k == 7

MaxKeys == 3
MaxW == 3
MaxCnt == 2
MaxHexLen == 4

(***************************************************************************)
(* Bigint arithmetic on little-endian bit sequences.                       *)
(***************************************************************************)
Min(a, b) == IF a <= b THEN a ELSE b
Max(a, b) == IF a >= b THEN a ELSE b

Norm(b) ==
  LET top == IF \E j \in 1..Len(b) : b[j] = 1
             THEN CHOOSE j \in 1..Len(b) :
                    b[j] = 1 /\ \A m \in (j+1)..Len(b) : b[m] = 0
             ELSE 0
  IN  SubSeq(b, 1, top)

RECURSIVE BigOf(_)
BigOf(m) == IF m = 0 THEN <<>> ELSE <<m % 2>> \o BigOf(m \div 2)

RECURSIVE NatOf(_)
NatOf(b) == IF b = <<>> THEN 0 ELSE Head(b) + 2 * NatOf(Tail(b))

Pow2(e) == [j \in 1..(e+1) |-> IF j = e + 1 THEN 1 ELSE 0]
Pow2Minus1(e) == [j \in 1..e |-> 1]

BitAt(b, j) == IF j <= Len(b) THEN b[j] ELSE 0

\* a + b.  The carry into bit j comes from the nearest lower position whose
\* two bits are equal: 1 when both are 1, 0 when both are 0.
CarryInto(a, b, j) ==
  LET settled == {m \in 1..(j-1) : BitAt(a, m) = BitAt(b, m)}
  IN  IF settled = {} THEN 0
      ELSE BitAt(a, CHOOSE m \in settled : \A t \in settled : t <= m)

BigAdd(a, b) ==
  LET L == Max(Len(a), Len(b)) + 1
  IN  IF \A j \in 1..L : BitAt(a, j) + BitAt(b, j) <= 1
      THEN Norm([j \in 1..L |-> BitAt(a, j) + BitAt(b, j)])
      ELSE Norm([j \in 1..L |->
                   (BitAt(a, j) + BitAt(b, j) + CarryInto(a, b, j)) % 2])

\* a * 2^e
BigShl(a, e) == IF a = <<>> THEN <<>> ELSE [j \in 1..e |-> 0] \o a
\* a % 2^w
BigModPow2(a, w) == Norm(SubSeq(a, 1, Min(w, Len(a))))
\* a / 2^w
BigDivPow2(a, w) == SubSeq(a, w + 1, Len(a))
\* a < 2^e
BigBelowPow2(a, e) == Len(a) <= e

(***************************************************************************)
(* Results and errors.  An error is what the failing call threw: its kind  *)
(* and the context (field, index) its message names.  A callee sees only   *)
(* its arguments: fs.readFileSync is given the path and names it, the      *)
(* codecs and the curve library are given one string or one number and     *)
(* name neither the field it came from nor its index.                      *)
(***************************************************************************)
NoField == "none"
NoIndex == -1
InputPath == "data/my_step_data.json"
OutputPath == "data/my_step_input.json"
ThrownAt(kind, field) == [kind |-> kind, field |-> field, index |-> NoIndex]
Thrown(kind) == ThrownAt(kind, NoField)
Ok(v) == [ok |-> TRUE, val |-> v, err |-> Thrown("none")]
Fail(kind) == [ok |-> FALSE, val |-> <<>>, err |-> Thrown(kind)]

(***************************************************************************)
(* 4.1 Limb Codec.                                                         *)
(***************************************************************************)
RECURSIVE Limbs(_, _, _)
Limbs(x, w, cnt) ==
  IF cnt = 0 THEN <<>>
  ELSE <<BigModPow2(x, w)>> \o Limbs(BigDivPow2(x, w), w, cnt - 1)

bigint_to_array(w, cnt, x) ==
  IF BigBelowPow2(x, w * cnt) THEN Ok(Limbs(x, w, cnt)) ELSE Fail("OutOfRange")

RECURSIVE decode(_, _)
decode(limbs, w) ==
  IF limbs = <<>> THEN <<>>
  ELSE BigAdd(Head(limbs), BigShl(decode(Tail(limbs), w), w))

(***************************************************************************)
(* 4.2 Byte/Hex Codec.                                                     *)
(***************************************************************************)
HexLower == <<"0","1","2","3","4","5","6","7","8","9","a","b","c","d","e","f">>
HexUpper == <<"0","1","2","3","4","5","6","7","8","9","A","B","C","D","E","F">>
IsHexChar(c) == \E j \in 1..16 : HexLower[j] = c \/ HexUpper[j] = c
HexVal(c) == (CHOOSE j \in 1..16 : HexLower[j] = c \/ HexUpper[j] = c) - 1
IsHex(s) == \A j \in 1..Len(s) : IsHexChar(s[j])

\* String.prototype.substring(2)
substring2(s) == SubSeq(s, 3, Len(s))

hexToBytes(hex, stripPrefix) ==
  LET body == IF stripPrefix THEN substring2(hex) ELSE hex
  IN  IF Len(body) % 2 # 0 \/ ~IsHex(body) THEN Fail("MalformedHex")
      ELSE Ok([j \in 1..(Len(body) \div 2) |->
                 16 * HexVal(body[2*j - 1]) + HexVal(body[2*j])])

\* the import of line 10 as line 64 calls it
hexToIntArray(hex) == hexToBytes(hex, TRUE)

(***************************************************************************)
(* The curve library (@noble/bls12-381), as the capability                 *)
(* decompress(hex) -> point or error over synthetic keys.  A string that   *)
(* is not hex fails in the library's own hex decoding; a hex string that   *)
(* names no point of the table is not a curve point.                       *)
(***************************************************************************)
Key57 == <<"0","x","a","5">>        \* the point (5, 7)
KeyWide == <<"0","x","b","1">>      \* coordinates spanning several limbs
KeyOver == <<"0","x","c","0">>      \* a coordinate that is not reduced: 2^(n*k)
KeyOffCurve == <<"0","x","f","f">>  \* hex, but no point
KeyNotHex == <<"0","x","z","z">>    \* not hex
SampleKeys == {Key57, KeyWide, KeyOver, KeyOffCurve, KeyNotHex}

Point57 == [x |-> BigOf(5), y |-> BigOf(7)]
PointWide == [x |-> BigAdd(Pow2(n), BigOf(3)), y |-> BigAdd(Pow2(380), BigOf(1))]
PointOver == [x |-> Pow2(n * k), y |-> BigOf(1)]

PointG1_fromHex(hex) ==
  IF Len(hex) % 2 # 0 \/ ~IsHex(hex) THEN Fail("MalformedHex")
  ELSE IF hex = <<"a","5">> THEN Ok(Point57)
  ELSE IF hex = <<"b","1">> THEN Ok(PointWide)
  ELSE IF hex = <<"c","0">> THEN Ok(PointOver)
  ELSE Fail("DecompressionError")

SigGood == <<"a","1">>
SigGood2 == <<"a","2">>
SigOffCurve == <<"e","e">>
SigNotHex == <<"q","1">>
SampleSigs == {SigGood, SigGood2, SigOffCurve, SigNotHex}

\* a G2 point: each coordinate is a pair (c0, c1) = (real, imaginary)
SigPoint1 ==
  [x |-> [c0 |-> BigOf(11), c1 |-> BigAdd(Pow2(n), BigOf(12))],
   y |-> [c0 |-> Pow2Minus1(n), c1 |-> BigAdd(Pow2(2 * n), BigOf(14))]]
SigPoint2 ==
  [x |-> [c0 |-> Pow2(380), c1 |-> BigOf(0)],
   y |-> [c0 |-> BigOf(1), c1 |-> Pow2Minus1(3 * n)]]

PointG2_fromSignature(hex) ==
  IF Len(hex) % 2 # 0 \/ ~IsHex(hex) THEN Fail("MalformedHex")
  ELSE IF hex = <<"a","1">> THEN Ok(SigPoint1)
  ELSE IF hex = <<"a","2">> THEN Ok(SigPoint2)
  ELSE Fail("DecompressionError")

(***************************************************************************)
(* 4.4 Signature Encoder.                                                  *)
(***************************************************************************)
sigHexAsSnarkInput(sigHex, mode) ==
  LET sig == PointG2_fromSignature(sigHex)
  IN  IF ~sig.ok THEN sig
      ELSE LET xr == bigint_to_array(n, k, sig.val.x.c0)
               xi == bigint_to_array(n, k, sig.val.x.c1)
               yr == bigint_to_array(n, k, sig.val.y.c0)
               yi == bigint_to_array(n, k, sig.val.y.c1)
           IN  IF ~xr.ok THEN xr
               ELSE IF ~xi.ok THEN xi
               ELSE IF ~yr.ok THEN yr
               ELSE IF ~yi.ok THEN yi
               ELSE IF mode = "array"
                 THEN Ok(xr.val \o xi.val \o yr.val \o yi.val)
               ELSE IF mode = "object"
                 THEN Ok(<<[name |-> "x", limbs |-> <<xr.val, xi.val>>],
                           [name |-> "y", limbs |-> <<yr.val, yi.val>>]>>)
               ELSE Fail("InvalidMode")

(***************************************************************************)
(* The converter's own functions.                                          *)
(***************************************************************************)
\* lines 23-26
point_to_bigint(point) == <<point.x, point.y>>

\* mutant: the x coordinate encoded twice
MapCallbackSameCoordinate(pubkey) ==
  LET point == PointG1_fromHex(substring2(pubkey))
  IN  IF ~point.ok THEN point
      ELSE LET xs == bigint_to_array(n, k, point.val.x)
           IN  IF ~xs.ok THEN xs ELSE Ok(<<xs.val, xs.val>>)

\* mutant: the limbs taken without the codec's range check
MapCallbackTruncating(pubkey) ==
  LET point == PointG1_fromHex(substring2(pubkey))
  IN  IF ~point.ok THEN point
      ELSE Ok(<<Limbs(point.val.x, n, k), Limbs(point.val.y, n, k)>>)

\* mutant: limb width and limb count exchanged
MapCallbackSwappedWidth(pubkey) ==
  LET point == PointG1_fromHex(substring2(pubkey))
  IN  IF ~point.ok THEN point
      ELSE LET xs == bigint_to_array(k, n, point.val.x)
               ys == bigint_to_array(k, n, point.val.y)
           IN  IF ~xs.ok THEN xs
               ELSE IF ~ys.ok THEN ys
               ELSE Ok(<<xs.val, ys.val>>)

\* lines 42-49: the callback of myStepData.pubkeys.map; idx is not used
MapCallback(pubkey) ==
  LET point == PointG1_fromHex(substring2(pubkey))
  IN  IF ~point.ok THEN point
      ELSE LET bigints == point_to_bigint(point.val)
               xs == bigint_to_array(n, k, bigints[1])
               ys == bigint_to_array(n, k, bigints[2])
           IN  IF ~xs.ok THEN xs
               ELSE IF ~ys.ok THEN ys
               ELSE Ok(<<xs.val, ys.val>>)

\* mutant: the structured output shape
SignatureModeObject == "object"

\* line 63
SignatureMode == "array"

\* mutant: two pass-through fields exchanged
myStepInputSwapped(data, X, Y, sig, root) ==
  [pubkeysX |-> X,
   pubkeysY |-> Y,
   aggregationBits |-> data.pubkeybits,
   signature |-> sig,
   signingRoot |-> root,
   participation |-> data.syncCommitteePoseidon,
   syncCommitteePoseidon |-> data.participation]

\* lines 59-67: the object literal, its two calls already evaluated
myStepInput(data, X, Y, sig, root) ==
  [pubkeysX |-> X,
   pubkeysY |-> Y,
   aggregationBits |-> data.pubkeybits,
   signature |-> sig,
   signingRoot |-> root,
   participation |-> data.participation,
   syncCommitteePoseidon |-> data.syncCommitteePoseidon]

\* the members of the object literal (lines 59-67) in the order in which
\* JSON.stringify puts them into the text
Members == <<"pubkeysX", "pubkeysY", "aggregationBits", "signature",
             "signingRoot", "participation", "syncCommitteePoseidon">>

\* the file holding the first m members of the text of obj; the text is
\* complete (and parses back to obj) exactly when m = Len(Members)
File(obj, m) == [object |-> obj, members |-> m]

(***************************************************************************)
(* The input documents of the model.                                       *)
(***************************************************************************)
KeyLists == UNION {[1..m -> SampleKeys] : m \in 0..MaxKeys}

Root1234 == <<"0","x","1","2","3","4">>
RootFf == <<"0","x","F","f","0","0">>
RootOdd == <<"0","x","1","2","3">>
RootNotHex == <<"0","x","g","2","3","4">>
SampleRoots == {Root1234, RootFf, RootOdd, RootNotHex}

\* (pubkeybits, participation, syncCommitteePoseidon)
PassA == <<<<1, 0, 1>>, "2", "77">>
PassB == <<<<1, 1, 1>>, "3", "2">>
SamplePass == {PassA, PassB}

\* (signature, signing_root, pass-through fields) of the documents: every
\* signature with every signing root, every signature and every signing root
\* with both samples of the pass-through fields
SampleFields ==
  {f \in SampleSigs \X SampleRoots \X SamplePass :
     (f[3] = PassA) <=> ((f[1] \in {SigGood, SigOffCurve})
                           <=> (f[2] \in {Root1234, RootOdd}))}

Doc(keys, sig, root, pass) ==
  [pubkeys |-> <<keys>>,
   pubkeybits |-> pass[1],
   signature |-> sig,
   signing_root |-> root,
   participation |-> pass[2],
   syncCommitteePoseidon |-> pass[3]]

\* a JSON object without a pubkeys property
DocNoPubkeys ==
  [Doc(<<>>, SigGood, Root1234, PassA) EXCEPT !.pubkeys = <<>>]

Documents ==
  {Doc(ks, f[1], f[2], f[3]) : ks \in KeyLists, f \in SampleFields}
  \cup {DocNoPubkeys}

InputFiles ==
  {[state |-> "missing", data |-> DocNoPubkeys],
   [state |-> "notjson", data |-> DocNoPubkeys]}
  \cup {[state |-> "json", data |-> d] : d \in Documents}

(***************************************************************************)
(* The codec probes: a call of one codec function on arguments drawn from  *)
(* bounded sets.                                                           *)
(***************************************************************************)
Bigs(len) == {Norm(f) : f \in [1..len -> {0, 1}]}

RefValues ==
  {BigOf(0), BigOf(5), BigOf(7), Pow2Minus1(n), Pow2(n),
   Pow2Minus1(n * k), Pow2(n * k), BigAdd(Pow2(n * k), BigOf(1))}

HexAlphabet == {"0", "x", "b", "F", "g"}
HexStrings == UNION {[1..m -> HexAlphabet] : m \in 0..MaxHexLen} \cup {Root1234}

SampleModes == {"array", "object", "flat", ""}

Call(op, w, cnt, v, hex, flag, mode) ==
  [op |-> op, w |-> w, cnt |-> cnt, v |-> v, hex |-> hex, flag |-> flag, mode |-> mode]

Probes ==
  UNION {{Call("encode", w, cnt, v, <<>>, FALSE, "") : v \in Bigs(w * cnt + 1)} :
           w \in 1..MaxW, cnt \in 1..MaxCnt}
  \cup {Call("encode", n, k, v, <<>>, FALSE, "") : v \in RefValues}
  \cup {Call("hex", 0, 0, <<>>, h, f, "") : h \in HexStrings, f \in BOOLEAN}
  \cup {Call("sig", 0, 0, <<>>, h, FALSE, m) : h \in SampleSigs, m \in SampleModes}

\* data/my_step_input.json before the run:
\*   "file"      absent or a regular file, on a file system with room for
\*               `room` members of the text; open(O_CREAT|O_TRUNC) succeeds
\*               and the write stores what fits, failing with ENOSPC (which
\*               names nothing) when the text does not fit
\*   "directory" open fails with EISDIR (which names the path)
\*   "device"    a device that takes no data (/dev/full): ENOSPC, nothing stored
Location(kind, room) == [kind |-> kind, room |-> room]
SampleRoom == {0, 3, Len(Members)}
OutputLocations ==
  {Location("file", r) : r \in SampleRoom}
    \cup {Location("directory", 0), Location("device", 0)}

\* line 82 leaves a rejection to the runtime.  Its mode for unhandled
\* rejections (--unhandled-rejections) decides the status of the process:
\*   "throw"  the rejection is raised as an uncaught exception, status 1
\*            (the default from Node 15 on; "strict" and
\*            "warn-with-error-code" give status 1 as well)
\*   "warn"   a warning is printed and the process ends normally, status 0
\*            (the default before Node 15; "none" gives status 0 as well)
RejectionModes == {"throw", "warn"}

NoCall == Call("none", 0, 0, <<>>, <<>>, FALSE, "")

(***************************************************************************)
(* The run.                                                                *)
(***************************************************************************)
Event(ev, index, mode, ok) == [ev |-> ev, index |-> index, mode |-> mode, ok |-> ok]

Init ==
  /\ rawData = <<>> /\ myStepData = <<>>
  /\ pubkeys = <<>> /\ idx = 0
  /\ pubkeysX = <<>> /\ pubkeysY = <<>> /\ i = 0
  /\ signature = <<>> /\ signingRoot = <<>>
  /\ outputFile = <<>> /\ err = <<>> /\ exitCode = <<>>
  /\ trace = <<>> /\ res = <<>>
  /\ \/ /\ pc = "read" /\ inputFile \in InputFiles /\ probe = NoCall
        /\ outputLocation \in OutputLocations
        /\ unhandledRejections \in RejectionModes
     \/ /\ pc = "probe" /\ probe \in Probes
        /\ inputFile = [state |-> "missing", data |-> DocNoPubkeys]
        /\ outputLocation = Location("file", Len(Members))
        /\ unhandledRejections = "throw"

\* lines 36-39: fs.readFileSync
ReadFile ==
  /\ pc = "read"
  /\ IF inputFile.state = "missing"
     THEN /\ pc' = "thrown"
          /\ err' = <<ThrownAt("InputNotFound", InputPath)>>
          /\ trace' = Append(trace, Event("read", NoIndex, "", FALSE))
          /\ UNCHANGED rawData
     ELSE /\ pc' = "parse"
          /\ rawData' = <<inputFile>>
          /\ trace' = Append(trace, Event("read", NoIndex, "", TRUE))
          /\ UNCHANGED err
  /\ UNCHANGED <<inputFile, outputLocation, unhandledRejections, myStepData, pubkeys, idx, pubkeysX, pubkeysY, i,
                 signature, signingRoot, outputFile, exitCode, probe, res>>

\* line 40: JSON.parse
ParseJson ==
  /\ pc = "parse"
  /\ IF rawData[1].state = "notjson"
     THEN /\ pc' = "thrown"
          /\ err' = <<Thrown("MalformedInput")>>
          /\ trace' = Append(trace, Event("parse", NoIndex, "", FALSE))
          /\ UNCHANGED myStepData
     ELSE /\ pc' = "map"
          /\ myStepData' = <<rawData[1].data>>
          /\ trace' = Append(trace, Event("parse", NoIndex, "", TRUE))
          /\ UNCHANGED err
  /\ UNCHANGED <<inputFile, outputLocation, unhandledRejections, rawData, pubkeys, idx, pubkeysX, pubkeysY, i,
                 signature, signingRoot, outputFile, exitCode, probe, res>>

\* mutant: a key that fails is skipped and the map goes on
MapStepSkipping ==
  /\ pc = "map"
  /\ IF myStepData[1].pubkeys = <<>>
     THEN /\ pc' = "thrown"
          /\ err' = <<Thrown("MalformedInput")>>
          /\ trace' = Append(trace, Event("pubkeys", NoIndex, "", FALSE))
          /\ UNCHANGED <<pubkeys, idx>>
     ELSE IF idx = Len(myStepData[1].pubkeys[1])
     THEN /\ pc' = "collect"
          /\ UNCHANGED <<pubkeys, idx, err, trace>>
     ELSE LET r == MapCallback(myStepData[1].pubkeys[1][idx + 1])
          IN  /\ pubkeys' = IF r.ok THEN Append(pubkeys, r.val) ELSE pubkeys
              /\ idx' = idx + 1
              /\ trace' = Append(trace, Event("pubkey", idx, "", r.ok))
              /\ UNCHANGED <<pc, err>>
  /\ UNCHANGED <<inputFile, outputLocation, unhandledRejections, rawData, myStepData, pubkeysX, pubkeysY, i,
                 signature, signingRoot, outputFile, exitCode, probe, res>>

\* lines 42-49: one element of myStepData.pubkeys.map(...), or its end
MapStep ==
  /\ pc = "map"
  /\ IF myStepData[1].pubkeys = <<>>
     THEN \* undefined.map: a TypeError
          /\ pc' = "thrown"
          /\ err' = <<Thrown("MalformedInput")>>
          /\ trace' = Append(trace, Event("pubkeys", NoIndex, "", FALSE))
          /\ UNCHANGED <<pubkeys, idx>>
     ELSE IF idx = Len(myStepData[1].pubkeys[1])
     THEN /\ pc' = "collect"
          /\ UNCHANGED <<pubkeys, idx, err, trace>>
     ELSE LET r == MapCallback(myStepData[1].pubkeys[1][idx + 1])
          IN  IF r.ok
              THEN /\ pubkeys' = Append(pubkeys, r.val)
                   /\ idx' = idx + 1
                   /\ trace' = Append(trace, Event("pubkey", idx, "", TRUE))
                   /\ UNCHANGED <<pc, err>>
              ELSE /\ pc' = "thrown"
                   /\ err' = <<r.err>>
                   /\ trace' = Append(trace, Event("pubkey", idx, "", FALSE))
                   /\ UNCHANGED <<pubkeys, idx>>
  /\ UNCHANGED <<inputFile, outputLocation, unhandledRejections, rawData, myStepData, pubkeysX, pubkeysY, i,
                 signature, signingRoot, outputFile, exitCode, probe, res>>

\* mutant: the pairs taken from the end of the array
CollectStepReversed ==
  /\ pc = "collect"
  /\ IF i < Len(pubkeys)
     THEN /\ pubkeysX' = Append(pubkeysX, pubkeys[Len(pubkeys) - i][1])
          /\ pubkeysY' = Append(pubkeysY, pubkeys[Len(pubkeys) - i][2])
          /\ i' = i + 1
          /\ UNCHANGED pc
     ELSE /\ pc' = "signature"
          /\ UNCHANGED <<pubkeysX, pubkeysY, i>>
  /\ UNCHANGED <<inputFile, outputLocation, unhandledRejections, rawData, myStepData, pubkeys, idx, signature,
                 signingRoot, outputFile, err, exitCode, trace, probe, res>>

\* lines 51-57: the loop that splits the pairs into two arrays
CollectStep ==
  /\ pc = "collect"
  /\ IF i < Len(pubkeys)
     THEN /\ pubkeysX' = Append(pubkeysX, pubkeys[i + 1][1])
          /\ pubkeysY' = Append(pubkeysY, pubkeys[i + 1][2])
          /\ i' = i + 1
          /\ UNCHANGED pc
     ELSE /\ pc' = "signature"
          /\ UNCHANGED <<pubkeysX, pubkeysY, i>>
  /\ UNCHANGED <<inputFile, outputLocation, unhandledRejections, rawData, myStepData, pubkeys, idx, signature,
                 signingRoot, outputFile, err, exitCode, trace, probe, res>>

\* line 63
EncodeSignature ==
  /\ pc = "signature"
  /\ LET r == sigHexAsSnarkInput(myStepData[1].signature, SignatureMode)
     IN  IF r.ok
         THEN /\ signature' = <<r.val>>
              /\ pc' = "signingRoot"
              /\ trace' = Append(trace, Event("signature", NoIndex, SignatureMode, TRUE))
              /\ UNCHANGED err
         ELSE /\ pc' = "thrown"
              /\ err' = <<r.err>>
              /\ trace' = Append(trace, Event("signature", NoIndex, SignatureMode, FALSE))
              /\ UNCHANGED signature
  /\ UNCHANGED <<inputFile, outputLocation, unhandledRejections, rawData, myStepData, pubkeys, idx, pubkeysX, pubkeysY,
                 i, signingRoot, outputFile, exitCode, probe, res>>

\* mutant: the bytes taken from the signature string
EncodeSigningRootWrongField ==
  /\ pc = "signingRoot"
  /\ LET r == hexToIntArray(myStepData[1].signature)
     IN  IF r.ok
         THEN /\ signingRoot' = <<r.val>>
              /\ pc' = "write"
              /\ trace' = Append(trace, Event("signingRoot", NoIndex, "", TRUE))
              /\ UNCHANGED err
         ELSE /\ pc' = "thrown"
              /\ err' = <<r.err>>
              /\ trace' = Append(trace, Event("signingRoot", NoIndex, "", FALSE))
              /\ UNCHANGED signingRoot
  /\ UNCHANGED <<inputFile, outputLocation, unhandledRejections, rawData, myStepData, pubkeys, idx, pubkeysX, pubkeysY,
                 i, signature, outputFile, exitCode, probe, res>>

\* line 64
EncodeSigningRoot ==
  /\ pc = "signingRoot"
  /\ LET r == hexToIntArray(myStepData[1].signing_root)
     IN  IF r.ok
         THEN /\ signingRoot' = <<r.val>>
              /\ pc' = "write"
              /\ trace' = Append(trace, Event("signingRoot", NoIndex, "", TRUE))
              /\ UNCHANGED err
         ELSE /\ pc' = "thrown"
              /\ err' = <<r.err>>
              /\ trace' = Append(trace, Event("signingRoot", NoIndex, "", FALSE))
              /\ UNCHANGED signingRoot
  /\ UNCHANGED <<inputFile, outputLocation, unhandledRejections, rawData, myStepData, pubkeys, idx, pubkeysX, pubkeysY,
                 i, signature, outputFile, exitCode, probe, res>>

\* mutant: the file written before the signing root is encoded
WriteFileEarly ==
  /\ pc = "signingRoot"
  /\ outputFile' = <<File(myStepInput(myStepData[1], pubkeysX, pubkeysY,
                                      signature[1], <<>>), Len(Members))>>
  /\ trace' = Append(trace, Event("write", NoIndex, "", TRUE))
  /\ pc' = "returned"
  /\ UNCHANGED <<inputFile, outputLocation, unhandledRejections, rawData, myStepData, pubkeys, idx, pubkeysX, pubkeysY,
                 i, signature, signingRoot, err, exitCode, probe, res>>

\* lines 59-79: the object is complete; fs.writeFileSync opens the file
\* (creating or emptying it), writes the text and closes.  A failing open
\* stores nothing; a failing write leaves the part of the text that fitted.
WriteFile ==
  /\ pc = "write"
  /\ LET obj == myStepInput(myStepData[1], pubkeysX, pubkeysY,
                            signature[1], signingRoot[1])
         fits == outputLocation.kind = "file"
                   /\ outputLocation.room >= Len(Members)
     IN  /\ outputFile' =
              IF outputLocation.kind = "file"
              THEN <<File(obj, Min(outputLocation.room, Len(Members)))>>
              ELSE outputFile
         /\ trace' = Append(trace, Event("write", NoIndex, "", fits))
         /\ pc' = IF fits THEN "returned" ELSE "thrown"
         /\ err' = IF fits THEN err
                   ELSE IF outputLocation.kind = "directory"
                        THEN <<ThrownAt("EISDIR", OutputPath)>>
                        ELSE <<Thrown("ENOSPC")>>
  /\ UNCHANGED <<inputFile, outputLocation, unhandledRejections, rawData, myStepData, pubkeys, idx,
                 pubkeysX, pubkeysY, i, signature, signingRoot, exitCode, probe, res>>

\* mutant: a rejection that is caught and logged, the status left at 0
ProcessExitZero ==
  /\ pc \in {"returned", "thrown"}
  /\ exitCode' = <<0>>
  /\ pc' = "exited"
  /\ UNCHANGED <<inputFile, outputLocation, unhandledRejections, rawData, myStepData, pubkeys, idx, pubkeysX, pubkeysY,
                 i, signature, signingRoot, outputFile, err, trace, probe, res>>

\* line 82: the promise is neither awaited nor caught; a fulfilled promise
\* lets the process end with status 0, a rejection is unhandled and the
\* runtime's mode decides the status
ProcessExit ==
  /\ pc \in {"returned", "thrown"}
  /\ exitCode' = IF pc = "thrown" /\ unhandledRejections = "throw"
                 THEN <<1>> ELSE <<0>>
  /\ pc' = "exited"
  /\ UNCHANGED <<inputFile, outputLocation, unhandledRejections, rawData, myStepData, pubkeys, idx, pubkeysX, pubkeysY,
                 i, signature, signingRoot, outputFile, err, trace, probe, res>>

(***************************************************************************)
(* The probes' actions.                                                    *)
(***************************************************************************)
ProbeEncode ==
  /\ pc = "probe" /\ probe.op = "encode"
  /\ res' = <<bigint_to_array(probe.w, probe.cnt, probe.v)>>
  /\ pc' = "encoded"
  /\ UNCHANGED <<inputFile, outputLocation, unhandledRejections, rawData, myStepData, pubkeys, idx, pubkeysX, pubkeysY,
                 i, signature, signingRoot, outputFile, err, exitCode, trace, probe>>

ProbeDecode ==
  /\ pc = "encoded" /\ res[1].ok
  /\ res' = <<res[1], Ok(decode(res[1].val, probe.w))>>
  /\ pc' = "decoded"
  /\ UNCHANGED <<inputFile, outputLocation, unhandledRejections, rawData, myStepData, pubkeys, idx, pubkeysX, pubkeysY,
                 i, signature, signingRoot, outputFile, err, exitCode, trace, probe>>

ProbeHex ==
  /\ pc = "probe" /\ probe.op = "hex"
  /\ res' = <<hexToBytes(probe.hex, probe.flag)>>
  /\ pc' = "parsed"
  /\ UNCHANGED <<inputFile, outputLocation, unhandledRejections, rawData, myStepData, pubkeys, idx, pubkeysX, pubkeysY,
                 i, signature, signingRoot, outputFile, err, exitCode, trace, probe>>

ProbeSig ==
  /\ pc = "probe" /\ probe.op = "sig"
  /\ res' = <<sigHexAsSnarkInput(probe.hex, probe.mode)>>
  /\ pc' = "signed"
  /\ UNCHANGED <<inputFile, outputLocation, unhandledRejections, rawData, myStepData, pubkeys, idx, pubkeysX, pubkeysY,
                 i, signature, signingRoot, outputFile, err, exitCode, trace, probe>>

Next ==
  \/ ReadFile
  \/ ParseJson
  \/ MapStep
  \/ CollectStep
  \/ EncodeSignature
  \/ EncodeSigningRoot
  \/ WriteFile
  \/ ProcessExit
  \/ ProbeEncode
  \/ ProbeDecode
  \/ ProbeHex
  \/ ProbeSig

Spec == Init /\ [][Next]_vars

(***************************************************************************)
(* What the properties read off a state.                                   *)
(***************************************************************************)
Document == inputFile.data
HasKeys == inputFile.state = "json" /\ Document.pubkeys # <<>>
Keys == Document.pubkeys[1]
PointOf(key) == PointG1_fromHex(substring2(key))
SigPointOf(hex) == PointG2_fromSignature(hex)
Fits(x) == Len(x) <= n * k
GoodKey(key) == PointOf(key).ok /\ Fits(PointOf(key).val.x) /\ Fits(PointOf(key).val.y)

\* limb m (from 1) of x: bits (m-1)*n+1 .. m*n of x, as a number
Slice(x, m) == Norm(SubSeq(x, (m - 1) * n + 1, Min(m * n, Len(x))))
LimbsOf(x) == [m \in 1..k |-> Slice(x, m)]
Zero == <<>>

Positions(ev) == {j \in 1..Len(trace) : trace[j].ev = ev}
Failed == {j \in 1..Len(trace) : ~trace[j].ok}
\* the run left a file, whole or not; the file is the whole text; the
\* object a reader gets from it
FileLeft == outputFile # <<>>
Written == FileLeft /\ outputFile[1].members = Len(Members)
Output == outputFile[1].object

DigitValue(c) ==
  CASE c = "0" -> 0 [] c = "1" -> 1 [] c = "2" -> 2 [] c = "3" -> 3
    [] c = "4" -> 4 [] c = "5" -> 5 [] c = "6" -> 6 [] c = "7" -> 7
    [] c = "8" -> 8 [] c = "9" -> 9
    [] c \in {"a", "A"} -> 10 [] c \in {"b", "B"} -> 11 [] c \in {"c", "C"} -> 12
    [] c \in {"d", "D"} -> 13 [] c \in {"e", "E"} -> 14 [] c \in {"f", "F"} -> 15
    [] OTHER -> -1

WellFormedHex(body) ==
  Len(body) % 2 = 0 /\ \A j \in 1..Len(body) : DigitValue(body[j]) >= 0
BytesOf(body) ==
  [j \in 1..(Len(body) \div 2) |->
     16 * DigitValue(body[2*j - 1]) + DigitValue(body[2*j])]

\* v < 2^(w*cnt), by value where TLC's integers reach, by length beyond
InRange(v, w, cnt) ==
  IF w * cnt <= 20 THEN NatOf(v) < 2^(w * cnt) ELSE Len(v) <= w * cnt

\* limbs is the k-limb little-endian form of x
ShapeOf(limbs, x) ==
  /\ Len(limbs) = k
  /\ \A m \in 1..k :
       /\ Len(limbs[m]) <= n
       /\ limbs[m] = Slice(x, m)
       /\ (m - 1) * n >= Len(x) => limbs[m] = Zero

\* the limbs of real-x, imag-x, real-y, imag-y, in that order
FlatLimbs(point) ==
  LimbsOf(point.x.c0) \o LimbsOf(point.x.c1) \o LimbsOf(point.y.c0) \o LimbsOf(point.y.c1)

\* the field a failed step was working on
FieldOf(event) ==
  CASE event.ev = "read" -> InputPath
    [] event.ev \in {"pubkeys", "pubkey"} -> "pubkeys"
    [] event.ev = "signature" -> "signature"
    [] event.ev = "signingRoot" -> "signing_root"
    [] OTHER -> NoField

\* the error the step of a failed event threw, from the input alone
ErrorOf(event) ==
  CASE event.ev = "read" -> ThrownAt("InputNotFound", InputPath)
    [] event.ev = "parse" -> Thrown("MalformedInput")
    [] event.ev = "pubkeys" -> Thrown("MalformedInput")
    [] event.ev = "pubkey" ->
         IF PointOf(Keys[event.index + 1]).ok THEN Thrown("OutOfRange")
         ELSE PointOf(Keys[event.index + 1]).err
    [] event.ev = "signature" -> SigPointOf(Document.signature).err
    [] event.ev = "signingRoot" -> Thrown("MalformedHex")
    [] event.ev = "write" ->
         IF outputLocation.kind = "directory" THEN ThrownAt("EISDIR", OutputPath)
         ELSE Thrown("ENOSPC")
    [] OTHER -> Thrown("none")

\* a failure is the last step of the run and leaves no whole file
FailureTerminal ==
  /\ (Failed # {}) <=> (err # <<>>)
  /\ err # <<>> =>
       /\ pc \in {"thrown", "exited"}
       /\ Failed = {Len(trace)}
       /\ ~Written
  /\ pc = "thrown" => err # <<>>

\* every failed run ends with status 1, whatever the runtime
FailureNonZero ==
  /\ (pc = "exited" /\ err # <<>>) => exitCode = <<1>>
  /\ exitCode = <<0>> => (err = <<>> /\ Written)

\* a failed run ends with status 1 exactly when the runtime raises unhandled
\* rejections, and with status 0 when it only warns
FailureStatus ==
  /\ pc = "exited" =>
       exitCode = IF err # <<>> /\ unhandledRejections = "throw"
                  THEN <<1>> ELSE <<0>>
  /\ (exitCode = <<0>> /\ err = <<>>) => Written
  /\ pc # "exited" => exitCode = <<>>

\* what a file at the output location, whole or not, says about the run:
\* every encoding step succeeded on the whole input
EncodedWhole ==
  /\ HasKeys
  /\ \A j \in 1..Len(Keys) : GoodKey(Keys[j])
  /\ \A j \in 1..Len(Keys) :
       Cardinality({m \in Positions("pubkey") : trace[m].index = j - 1}) = 1
  /\ SigPointOf(Document.signature).ok
  /\ WellFormedHex(substring2(Document.signing_root))
  /\ Len(Output.pubkeysX) = Len(Keys)
  /\ Len(Output.pubkeysY) = Len(Keys)

(***************************************************************************)
(* C1.  No partial output: a run in which the read, the parse, a public    *)
(* key at any index, the signature or the signing root fails leaves no     *)
(* file at the output location, whole or not; a failing key is neither     *)
(* skipped nor retried (the failed step is the last step of the run); a    *)
(* file is there only when every one of these steps succeeded on the whole *)
(* input, and the whole file only in a run without failure.  The write is  *)
(* not one of the steps the claim lists and need not be atomic: a file     *)
(* that is not whole is what a write to a regular file that failed for     *)
(* lack of space left; a failing write to a directory or a device leaves   *)
(* nothing.                                                                *)
(***************************************************************************)
NoPartialOutput ==
  /\ err # <<>> => ~Written
  /\ \A j \in Failed :
       /\ j = Len(trace) /\ err # <<>>
       /\ trace[j].ev # "write" => ~FileLeft
  /\ FileLeft => EncodedWhole
  /\ (FileLeft /\ ~Written) =>
       /\ Failed = {Len(trace)} /\ trace[Len(trace)].ev = "write"
       /\ err = <<Thrown("ENOSPC")>>
       /\ outputLocation.kind = "file"
       /\ outputFile[1].members = outputLocation.room
       /\ outputLocation.room < Len(Members)
  /\ (Failed # {} /\ trace[Len(trace)].ev = "write"
        /\ outputLocation.kind # "file") => ~FileLeft

\* a run whose third public key is malformed has ended without an output file
FailedAtThirdKey ==
  /\ pc = "exited" /\ ~FileLeft /\ err # <<>>
  /\ HasKeys /\ Len(Keys) >= 3 /\ ~PointOf(Keys[3]).ok
  /\ trace[Len(trace)] = Event("pubkey", 2, "", FALSE)

(***************************************************************************)
(* C2.  Pipeline ordering: the read and the parse complete before any      *)
(* encoding begins; every public key, the signature and the signing root   *)
(* are encoded before the write; the write happens at most once, is the    *)
(* last step, and happens exactly once in a run that returns.              *)
(***************************************************************************)
PipelineOrder ==
  /\ \A j \in Positions("pubkeys") \cup Positions("pubkey")
              \cup Positions("signature") \cup Positions("signingRoot") :
       /\ j > 2
       /\ trace[1] = Event("read", NoIndex, "", TRUE)
       /\ trace[2] = Event("parse", NoIndex, "", TRUE)
  /\ Cardinality(Positions("write")) <= 1
  /\ Written <=> (\E j \in Positions("write") : trace[j].ok)
  /\ \A j \in Positions("write") :
       /\ j = Len(trace)
       /\ HasKeys
       /\ \A m \in 1..Len(Keys) :
            \E a \in 1..(j - 1) : trace[a] = Event("pubkey", m - 1, "", TRUE)
       /\ \E a \in 1..(j - 1) : trace[a].ev = "signature" /\ trace[a].ok
       /\ \E a \in 1..(j - 1) : trace[a].ev = "signingRoot" /\ trace[a].ok
       /\ signature # <<>> /\ signingRoot # <<>>
       /\ trace[j].ok =>
            /\ Output.signature = signature[1]
            /\ Output.signingRoot = signingRoot[1]
  /\ (pc = "returned" \/ (pc = "exited" /\ err = <<>>)) =>
       /\ Cardinality(Positions("write")) = 1
       /\ Written

\* a run over two keys or more has returned, the write being its last step
ReturnedAfterWrite ==
  /\ pc = "returned" /\ HasKeys /\ Len(Keys) >= 2
  /\ trace[Len(trace)].ev = "write"
  /\ Len(trace) = Len(Keys) + 5

(***************************************************************************)
(* C3.  Order preservation: pubkeysX[i] and pubkeysY[i] are the limb       *)
(* encodings of the x and y coordinates of the point decompressed from     *)
(* input key i, and a successful run emits exactly one pair per input key. *)
(***************************************************************************)
OrderPreserved ==
  /\ (pubkeysX # <<>> \/ pubkeysY # <<>>) => HasKeys
  /\ Len(pubkeysX) = Len(pubkeysY)
  /\ \A j \in 1..Len(pubkeysX) :
       /\ j <= Len(Keys)
       /\ PointOf(Keys[j]).ok
       /\ pubkeysX[j] = bigint_to_array(n, k, PointOf(Keys[j]).val.x).val
       /\ pubkeysY[j] = bigint_to_array(n, k, PointOf(Keys[j]).val.y).val
  /\ Written =>
       /\ Output.pubkeysX = pubkeysX /\ Output.pubkeysY = pubkeysY
       /\ Len(Output.pubkeysX) = Len(Keys)
       /\ Len(Output.pubkeysY) = Len(Keys)

\* a file written for keys that decompress to different points
WroteDistinctKeys ==
  /\ Written /\ Len(Keys) >= 3
  /\ Keys[1] # Keys[2]
  /\ Output.pubkeysX[1] # Output.pubkeysX[2]

(***************************************************************************)
(* C4.  Round trip: decode(encode(v, n, k), n) = v for every v below       *)
(* 2^(n*k), decode being the little-endian sum of limb[i] * 2^(n*i); and   *)
(* at the reference configuration n = 55, k = 7 every limb array of a      *)
(* written file decodes to the coordinate of its key.                      *)
(***************************************************************************)
RoundTrip ==
  /\ (pc = "encoded" /\ InRange(probe.v, probe.w, probe.cnt)) =>
       res[1].ok /\ decode(res[1].val, probe.w) = probe.v
  /\ pc = "decoded" => res[2].val = probe.v
  /\ Written =>
       \A j \in 1..Len(Keys) :
         /\ decode(Output.pubkeysX[j], n) = PointOf(Keys[j]).val.x
         /\ decode(Output.pubkeysY[j], n) = PointOf(Keys[j]).val.y

\* the largest value of the reference configuration, encoded and decoded
DecodedLargest ==
  /\ pc = "decoded" /\ probe.w = n /\ probe.cnt = k
  /\ probe.v = Pow2Minus1(n * k)
  /\ res[2].val = Pow2Minus1(n * k)

(***************************************************************************)
(* C5.  Capacity boundary: encode(v, n, k) succeeds exactly for the v      *)
(* below 2^(n*k) and fails with OutOfRange for the others (it succeeds at  *)
(* 2^(n*k) - 1 and fails at 2^(n*k)); nothing is truncated: a run whose    *)
(* key has a coordinate that does not fit fails at that key with           *)
(* OutOfRange instead of emitting limbs.                                   *)
(***************************************************************************)
CapacityBoundary ==
  /\ pc \in {"encoded", "decoded"} =>
       /\ res[1].ok <=> InRange(probe.v, probe.w, probe.cnt)
       /\ ~res[1].ok => res[1].err.kind = "OutOfRange"
       /\ probe.v = Pow2Minus1(probe.w * probe.cnt) => res[1].ok
       /\ probe.v = Pow2(probe.w * probe.cnt) => ~res[1].ok
  /\ \A j \in Positions("pubkey") :
       LET p == PointOf(Keys[trace[j].index + 1])
       IN  /\ trace[j].ok <=> (p.ok /\ Fits(p.val.x) /\ Fits(p.val.y))
           /\ (p.ok /\ ~(Fits(p.val.x) /\ Fits(p.val.y))) =>
                /\ err = <<Thrown("OutOfRange")>>
                /\ Len(pubkeys) = trace[j].index
                /\ ~FileLeft

\* 2^(n*k) at the reference configuration, refused
RefusedFirstTooLarge ==
  /\ pc = "encoded" /\ probe.w = n /\ probe.cnt = k
  /\ probe.v = Pow2(n * k)
  /\ ~res[1].ok /\ res[1].err.kind = "OutOfRange"

(***************************************************************************)
(* C6.  Limb shape: every limb array of pubkeysX and pubkeysY has exactly  *)
(* k elements, each below 2^n, element 1 holding the least significant n   *)
(* bits and the limbs above the value's length being zero; the point       *)
(* (5, 7) gives [5,0,0,0,0,0,0] and [7,0,0,0,0,0,0].                       *)
(***************************************************************************)
LimbShape ==
  /\ \A j \in 1..Len(pubkeys) :
       /\ ShapeOf(pubkeys[j][1], PointOf(Keys[j]).val.x)
       /\ ShapeOf(pubkeys[j][2], PointOf(Keys[j]).val.y)
       /\ Keys[j] = Key57 =>
            /\ pubkeys[j][1] = <<BigOf(5), Zero, Zero, Zero, Zero, Zero, Zero>>
            /\ pubkeys[j][2] = <<BigOf(7), Zero, Zero, Zero, Zero, Zero, Zero>>
  /\ Written =>
       \A j \in 1..Len(Output.pubkeysX) :
         /\ Output.pubkeysX[j] = pubkeys[j][1]
         /\ Output.pubkeysY[j] = pubkeys[j][2]

\* the file written for the key of the point (5, 7)
WroteFiveSeven ==
  /\ Written /\ Keys = <<Key57>>
  /\ Output.pubkeysX = <<<<BigOf(5), Zero, Zero, Zero, Zero, Zero, Zero>>>>
  /\ Output.pubkeysY = <<<<BigOf(7), Zero, Zero, Zero, Zero, Zero, Zero>>>>

(***************************************************************************)
(* C7.  Pass-through: in a successful run aggregationBits, participation   *)
(* and syncCommitteePoseidon of the output equal pubkeybits, participation *)
(* and syncCommitteePoseidon of the input.                                 *)
(***************************************************************************)
PassThrough ==
  Written =>
    /\ Output.aggregationBits = Document.pubkeybits
    /\ Output.participation = Document.participation
    /\ Output.syncCommitteePoseidon = Document.syncCommitteePoseidon

\* a file written for a document whose pass-through fields all differ
WrotePassThrough ==
  /\ Written /\ Len(Keys) >= 1
  /\ Document.participation = "3" /\ Output.participation = "3"
  /\ Output.syncCommitteePoseidon = "2"
  /\ Output.aggregationBits = <<1, 1, 1>>

(***************************************************************************)
(* C8.  Hex parsing: hexToBytes returns, for an even-length string of hex  *)
(* digits (after the 2-character prefix is removed when stripping is on),  *)
(* one integer of 0..255 per two characters in the order of the string,    *)
(* "0x1234" giving [18, 52]; odd-length or non-hex input fails with        *)
(* MalformedHex, and a run whose signing root fails so writes nothing.     *)
(***************************************************************************)
HexParsing ==
  /\ pc = "parsed" =>
       LET body == IF probe.flag THEN SubSeq(probe.hex, 3, Len(probe.hex))
                   ELSE probe.hex
       IN  /\ res[1].ok <=> WellFormedHex(body)
           /\ ~res[1].ok => res[1].err.kind = "MalformedHex"
           /\ res[1].ok =>
                /\ Len(res[1].val) * 2 = Len(body)
                /\ \A j \in 1..Len(res[1].val) : res[1].val[j] \in 0..255
                /\ res[1].val = BytesOf(body)
           /\ (probe.hex = Root1234 /\ probe.flag) => res[1].val = <<18, 52>>
  /\ \A j \in Positions("signingRoot") :
       LET body == substring2(Document.signing_root)
       IN  /\ trace[j].ok <=> WellFormedHex(body)
           /\ trace[j].ok => signingRoot = <<BytesOf(body)>>
           /\ ~trace[j].ok => err = <<Thrown("MalformedHex")>> /\ ~FileLeft
  /\ Written => Output.signingRoot = BytesOf(substring2(Document.signing_root))

\* "0x1234" parsed with the prefix stripped
Parsed1234 ==
  /\ pc = "parsed" /\ probe.hex = Root1234 /\ probe.flag
  /\ res[1].ok /\ res[1].val = <<18, 52>>

(***************************************************************************)
(* C9.  Signature encoding: the converter encodes the signature in "array" *)
(* mode, and the result is one flat sequence of 4*k limbs, each below 2^n: *)
(* the limbs of real-x, imag-x, real-y, imag-y in that order; a mode other *)
(* than "array" and "object" fails, with InvalidMode when the signature    *)
(* itself decompresses.                                                    *)
(***************************************************************************)
SignatureEncoding ==
  /\ \A j \in Positions("signature") :
       /\ trace[j].mode = "array"
       /\ trace[j].ok <=> SigPointOf(Document.signature).ok
  /\ signature # <<>> =>
       /\ signature[1] = FlatLimbs(SigPointOf(Document.signature).val)
       /\ Len(signature[1]) = 4 * k
       /\ \A m \in 1..Len(signature[1]) : Len(signature[1][m]) <= n
  /\ Written => Output.signature = FlatLimbs(SigPointOf(Document.signature).val)
  /\ pc = "signed" =>
       /\ probe.mode \notin {"array", "object"} =>
            /\ ~res[1].ok
            /\ SigPointOf(probe.hex).ok => res[1].err.kind = "InvalidMode"
       /\ (probe.mode = "array" /\ SigPointOf(probe.hex).ok) =>
            res[1].ok /\ res[1].val = FlatLimbs(SigPointOf(probe.hex).val)

\* a file written with the flat signature of a point whose parts all differ
WroteFlatSignature ==
  /\ Written /\ Document.signature = SigGood
  /\ Len(Output.signature) = 4 * k
  /\ Output.signature[1] = BigOf(11)
  /\ Output.signature[k + 1] = BigOf(12) /\ Output.signature[k + 2] = BigOf(1)
  /\ Output.signature[2 * k + 1] = Pow2Minus1(n)
  /\ Output.signature[3 * k + 1] = BigOf(14)

====
